---- MODULE Spec2Model ----
(***************************************************************************)
(* Model of the MAC-address presence pipeline of network_scanner.py:       *)
(* roster loading, MAC normalisation, the three scan strategies with       *)
(* their fallback chain and cache, and the presence matcher.               *)
(*                                                                         *)
(* A text (Python str) is a sequence of one-character strings.  Python's   *)
(* None is the one-element sequence <<"None">>, a non-string JSON value    *)
(* is <<"Number">>; neither can be confused with a text.                   *)
(***************************************************************************)
EXTENDS Integers, Sequences, FiniteSets, TLC

VARIABLES
    rosterFile,      \* the colleagues.json the scanner was constructed from
    colleagues,      \* NetworkScanner.colleagues
    network_range,   \* NetworkScanner.network_range
    interface,       \* NetworkScanner.interface
    devices_cache,   \* NetworkScanner.devices_cache
    last_scan_time,  \* NetworkScanner.last_scan_time, NoTime for None
    now,             \* the clock read by datetime.now(), in seconds
    call,            \* the last step: [op, use_cache, hit]
    invoked,         \* the strategies the last call invoked, in order
    ret,             \* the device list get_all_devices returned in that call
    present,         \* first list returned by the last detect_presence
    absent,          \* second list returned by the last detect_presence
    escaped,         \* TRUE when an exception left that call
    macIn,           \* argument of _normalize_mac
    macOut,          \* _normalize_mac(macIn)
    macOut2,         \* _normalize_mac(macOut)
    normPc,          \* position of the normalisation run
    pc,              \* where each concurrent caller of get_all_devices stands
    local,           \* the local variable devices of each concurrent caller
    running,         \* PresenceTracker.running
    loops,           \* position of every _scan_loop thread started so far
    current_presence,\* PresenceTracker.current_presence
    available,       \* NETWORK_SCANNER_AVAILABLE of the dashboard
    got,             \* what get_present_absent_colleagues gave the last request
    response         \* the last answer of /api/presence

scannerVars == <<rosterFile, colleagues, network_range, interface, devices_cache,
                 last_scan_time, now, call, invoked, ret, present, absent, escaped>>

normVars == <<macIn, macOut, macOut2, normPc>>

concVars == <<pc, local>>

trackerVars == <<running, loops, current_presence>>

dashVars == <<available, got, response>>

vars == <<scannerVars, normVars, concVars, trackerVars, dashVars>>

None == <<"None">>

NonStr == <<"Number">>

\* ------------------------------------------------------------------------
\* Characters
\* ------------------------------------------------------------------------
HexLower == {"a", "b", "c", "d", "e", "f"}

HexUpper == {"A", "B", "C", "D", "E", "F"}

DecDigits == {"0", "1", "2", "3", "4", "5", "6", "7", "8", "9"}

\* the character class [a-fA-F0-9] of the regular expressions
HexChars == HexLower \cup HexUpper \cup DecDigits

\* \w restricted to the characters that occur in the modelled texts
WordChars == HexChars \cup {"n", "o", "t", "m", "g", "z", "Z", "_"}

\* str.upper() on one character
UpperChar(c) ==
    CASE c = "a" -> "A" [] c = "b" -> "B" [] c = "c" -> "C"
      [] c = "d" -> "D" [] c = "e" -> "E" [] c = "f" -> "F"
      [] c = "n" -> "N" [] c = "o" -> "O" [] c = "t" -> "T"
      [] c = "m" -> "M" [] c = "g" -> "G" [] c = "z" -> "Z"
      [] OTHER -> c

\* str.lower() on one character
LowerChar(c) ==
    CASE c = "A" -> "a" [] c = "B" -> "b" [] c = "C" -> "c"
      [] c = "D" -> "d" [] c = "E" -> "e" [] c = "F" -> "f"
      [] c = "Z" -> "z"
      [] OTHER -> c

Upper(s) == [i \in 1..Len(s) |-> UpperChar(s[i])]

Lower(s) == [i \in 1..Len(s) |-> LowerChar(s[i])]

\* re.sub(r'[^a-fA-F0-9]', '', mac)
RECURSIVE StripNonHex(_)
StripNonHex(s) ==
    IF s = <<>> THEN <<>>
    ELSE IF Head(s) \in HexChars THEN <<Head(s)>> \o StripNonHex(Tail(s))
    ELSE StripNonHex(Tail(s))

\* ':'.join(clean[i:i+2] for i in range(0, 12, 2))
RECURSIVE JoinPairs(_)
JoinPairs(clean) ==
    IF Len(clean) <= 2 THEN clean
    ELSE <<clean[1], clean[2], ":">> \o JoinPairs(SubSeq(clean, 3, Len(clean)))

MacDigits == 12

\* a mutant of _normalize_mac: the final .upper() is forgotten
NormalizeMacNoUpper(mac) ==
    IF mac = None \/ mac = <<>> THEN None
    ELSE LET clean == StripNonHex(mac)
         IN  IF Len(clean) # MacDigits THEN None
             ELSE JoinPairs(clean)

\* a mutant of _normalize_mac: more than 12 digits are cut to the first 12
NormalizeMacTruncating(mac) ==
    IF mac = None \/ mac = <<>> THEN None
    ELSE LET clean == StripNonHex(mac)
         IN  IF Len(clean) < MacDigits THEN None
             ELSE Upper(JoinPairs(SubSeq(clean, 1, MacDigits)))

\* NetworkScanner._normalize_mac for a str or None argument
_normalize_mac(mac) ==
    IF mac = None \/ mac = <<>> THEN None
    ELSE LET clean == StripNonHex(mac)
         IN  IF Len(clean) # MacDigits THEN None
             ELSE Upper(JoinPairs(clean))

\* ------------------------------------------------------------------------
\* Results of a call: raised is TRUE when an exception leaves the function
\* ------------------------------------------------------------------------
Returns(v) == [raised |-> FALSE, value |-> v]

Raises == [raised |-> TRUE, value |-> <<>>]

\* ------------------------------------------------------------------------
\* Python dict with insertion order: a sequence of <<key, value>> pairs
\* with distinct keys
\* ------------------------------------------------------------------------
HasKey(d, k) == \E i \in 1..Len(d) : d[i][1] = k

\* d[k] = v
DictSet(d, k, v) ==
    IF HasKey(d, k)
    THEN [i \in 1..Len(d) |-> IF d[i][1] = k THEN <<k, v>> ELSE d[i]]
    ELSE Append(d, <<k, v>>)

\* list(d.keys())
DictKeys(d) == [i \in 1..Len(d) |-> d[i][1]]

\* json.load of a JSON object written as the pairs, in file order: a
\* repeated name keeps its first position and its last value
RECURSIVE JsonObject(_)
JsonObject(pairs) ==
    IF pairs = <<>> THEN <<>>
    ELSE LET n == Len(pairs)
         IN  DictSet(JsonObject(SubSeq(pairs, 1, n - 1)), pairs[n][1], pairs[n][2])

\* ------------------------------------------------------------------------
\* Roster loader
\* ------------------------------------------------------------------------
\* a mutant of the loop: it stops at the first entry whose MAC is invalid
RECURSIVE ValidateItemsStop(_, _)
ValidateItemsStop(items, validated) ==
    IF items = <<>> THEN Returns(validated)
    ELSE LET name == items[1][1]
             mac == items[1][2]
         IN  IF mac = NonStr THEN Raises
             ELSE LET normalized == _normalize_mac(mac)
                  IN  IF normalized # None
                      THEN ValidateItemsStop(Tail(items), DictSet(validated, name, normalized))
                      ELSE Returns(validated)

\* the loop of _load_colleagues over colleagues.items(); _normalize_mac
\* raises TypeError in re.sub when the value is not a string
RECURSIVE ValidateItems(_, _)
ValidateItems(items, validated) ==
    IF items = <<>> THEN Returns(validated)
    ELSE LET name == items[1][1]
             mac == items[1][2]
         IN  IF mac = NonStr THEN Raises
             ELSE LET normalized == _normalize_mac(mac)
                  IN  ValidateItems(Tail(items),
                          IF normalized # None
                          THEN DictSet(validated, name, normalized)
                          ELSE validated)

\* the try block of _load_colleagues
LoadColleaguesBody(file) ==
    CASE file.kind = "missing" -> Returns(<<>>)
      [] file.kind = "unreadable" -> Raises
      [] file.kind = "badjson" -> Raises
      [] file.kind = "notdict" -> Raises
      [] OTHER -> ValidateItems(JsonObject(file.pairs), <<>>)

\* a mutant of _load_colleagues: no except clause
LoadColleaguesNoExcept(file) == LoadColleaguesBody(file)

\* NetworkScanner._load_colleagues
_load_colleagues(file) ==
    LET body == LoadColleaguesBody(file)
    IN  IF body.raised THEN Returns(<<>>) ELSE body

\* ------------------------------------------------------------------------
\* Network parameter detection; the argument is what `ip route show
\* default` did: "oserror" (the command cannot be run), "nodefault" (no
\* default route line) or "default" (default via 10.0.0.1 dev eth0)
\* ------------------------------------------------------------------------
\* NetworkScanner._detect_network_range
_detect_network_range(ipRoute) ==
    CASE ipRoute = "oserror" -> Returns("192.168.1.0/24")
      [] ipRoute = "default" -> Returns("10.0.0.0/24")
      [] OTHER -> Returns("192.168.1.0/24")

\* NetworkScanner._detect_interface
_detect_interface(ipRoute) ==
    CASE ipRoute = "oserror" -> Returns("wlan0")
      [] ipRoute = "default" -> Returns("eth0")
      [] OTHER -> Returns("wlan0")

\* ------------------------------------------------------------------------
\* Scan strategies.  A run of a tool is [kind, stdout]; a device is
\* [ip, mac] (vendor, hostname and timestamp take no part in any decision)
\* ------------------------------------------------------------------------
Device(ip, mac) == [ip |-> ip, mac |-> mac]

\* re.match(r'^([0-9A-Fa-f]{2}[:-]){5}([0-9A-Fa-f]{2})$', raw_mac)
ArpMacMatches(raw_mac) ==
    /\ Len(raw_mac) = 17
    /\ \A i \in 1..17 :
          IF i % 3 = 0 THEN raw_mac[i] \in {":", "-"} ELSE raw_mac[i] \in HexChars

\* the longest prefix of text made of characters of class: what a greedy
\* [class]+ captures at the start of text (empty: no match)
RECURSIVE LongestPrefix(_, _)
LongestPrefix(text, class) ==
    IF text = <<>> \/ Head(text) \notin class THEN <<>>
    ELSE <<Head(text)>> \o LongestPrefix(Tail(text), class)

\* a mutant of the parse loop: the MAC is stored as arp-scan printed it
RECURSIVE ParseArpScanRaw(_)
ParseArpScanRaw(lines) ==
    IF lines = <<>> THEN <<>>
    ELSE LET line == Head(lines)
             rest == ParseArpScanRaw(Tail(lines))
         IN  IF line.k \in {"blank", "banner"} THEN rest
             ELSE IF line.k = "fields" /\ ArpMacMatches(line.mac)
                  THEN <<Device(line.ip, line.mac)>> \o rest
                  ELSE rest

\* a mutant of the parse loop: a line that is not IP<TAB>MAC ends the loop
RECURSIVE ParseArpScanBreak(_)
ParseArpScanBreak(lines) ==
    IF lines = <<>> THEN <<>>
    ELSE LET line == Head(lines)
             rest == ParseArpScanBreak(Tail(lines))
         IN  IF line.k \in {"blank", "banner"} THEN rest
             ELSE IF line.k = "fields" /\ ArpMacMatches(line.mac)
                  THEN <<Device(line.ip, _normalize_mac(line.mac))>> \o rest
                  ELSE <<>>

\* the parse loop of scan_with_arp over result.stdout.split('\n')
RECURSIVE ParseArpScan(_)
ParseArpScan(lines) ==
    IF lines = <<>> THEN <<>>
    ELSE LET line == Head(lines)
             rest == ParseArpScan(Tail(lines))
         IN  IF line.k \in {"blank", "banner"} THEN rest
             ELSE IF line.k = "fields" /\ ArpMacMatches(line.mac)
                  THEN <<Device(line.ip, _normalize_mac(line.mac))>> \o rest
                  ELSE rest

\* the try block of scan_with_arp
ScanWithArpBody(run) ==
    CASE run.kind = "notinstalled" -> Returns(<<>>)
      [] run.kind = "oserror" -> Raises
      [] run.kind = "timeout" -> Raises
      [] run.kind = "nonzero" -> Returns(<<>>)
      [] OTHER -> Returns(ParseArpScan(run.stdout))

\* a mutant of scan_with_arp: no except clauses
ScanWithArpNoExcept(run) == ScanWithArpBody(run)

\* NetworkScanner.scan_with_arp: both except clauses return devices,
\* still empty when the subprocess call raised
scan_with_arp(run) ==
    LET body == ScanWithArpBody(run)
    IN  IF body.raised THEN Returns(<<>>) ELSE body

\* current_ip = None: like every address it is only tested for truth
NoIp == ""

\* the parse loop of scan_with_nmap
RECURSIVE ParseNmap(_, _)
ParseNmap(lines, current_ip) ==
    IF lines = <<>> THEN <<>>
    ELSE LET line == Head(lines)
             ip == IF line.k = "report" THEN line.ip ELSE current_ip
             group == IF line.k = "mac"
                      THEN LongestPrefix(line.mac, WordChars \cup {":"})
                      ELSE <<>>
         IN  IF group # <<>> /\ ip # NoIp
             THEN <<Device(ip, _normalize_mac(group))>> \o ParseNmap(Tail(lines), ip)
             ELSE ParseNmap(Tail(lines), ip)

\* the try block of scan_with_nmap: the exit status is not looked at
ScanWithNmapBody(run) ==
    CASE run.kind = "notinstalled" -> Returns(<<>>)
      [] run.kind = "oserror" -> Raises
      [] run.kind = "timeout" -> Raises
      [] OTHER -> Returns(ParseNmap(run.stdout, NoIp))

\* a mutant of scan_with_nmap: no except clauses
ScanWithNmapNoExcept(run) == ScanWithNmapBody(run)

\* NetworkScanner.scan_with_nmap
scan_with_nmap(run) ==
    LET body == ScanWithNmapBody(run)
    IN  IF body.raised THEN Returns(<<>>) ELSE body

\* the parse loop of _scan_arp_table
RECURSIVE ParseArpTable(_)
ParseArpTable(lines) ==
    IF lines = <<>> THEN <<>>
    ELSE LET line == Head(lines)
             mac == IF line.k = "entry"
                    THEN LongestPrefix(line.mac, HexChars \cup {":"})
                    ELSE <<>>
         IN  IF mac # <<>>
             THEN <<Device(line.ip, _normalize_mac(mac))>> \o ParseArpTable(Tail(lines))
             ELSE ParseArpTable(Tail(lines))

\* the try block of _scan_arp_table: no timeout, no look at the exit status
ScanArpTableBody(run) ==
    CASE run.kind = "oserror" -> Raises
      [] OTHER -> Returns(ParseArpTable(run.stdout))

\* NetworkScanner._scan_arp_table
_scan_arp_table(run) ==
    LET body == ScanArpTableBody(run)
    IN  IF body.raised THEN Returns(<<>>) ELSE body

\* ------------------------------------------------------------------------
\* Inputs of the normalisation specification: hex digit strings of every
\* length up to MaxDigits, written with several separators, group sizes
\* and casings, with or without surrounding junk.
\* ------------------------------------------------------------------------
MaxDigits == 13

DigitSamples ==
    { <<"a","A","b","0","9","F","c","1","e","D","7","f","3","B">>,
      <<"0","0","1","1","2","2","3","3","4","4","5","5","6","6">>,
      <<"d","e","a","d","b","e","e","f","c","a","f","e","a","b">> }

Separators == {":", "-", ".", " "}

GroupSizes == {1, 2, 4}

Take(s, n) == SubSeq(s, 1, IF n < Len(s) THEN n ELSE Len(s))

\* the digits d written in groups of g digits separated by sep
RECURSIVE Grouped(_, _, _)
Grouped(d, sep, g) ==
    IF Len(d) <= g THEN d
    ELSE SubSeq(d, 1, g) \o <<sep>> \o Grouped(SubSeq(d, g + 1, Len(d)), sep, g)

NormInputs ==
    LET digs == { Take(d, n) : d \in DigitSamples, n \in 0..MaxDigits }
        plain == digs \cup { Upper(d) : d \in digs } \cup { Lower(d) : d \in digs }
        grouped == { Grouped(d, sep, g) : d \in plain, sep \in {":", "-"}, g \in GroupSizes }
                   \cup { Grouped(d, sep, 2) : d \in plain, sep \in Separators }
        junk == { <<"m", " ">> \o t \o <<" ", "z">> : t \in { Grouped(d, ":", 2) : d \in digs } }
    IN  plain \cup grouped \cup junk \cup {None}

\* ------------------------------------------------------------------------
\* Fallback chain and cache
\* ------------------------------------------------------------------------
NoTime == -1

cache_duration == 300

\* the clock runs from 0 to MaxTime in steps of TickStep seconds
MaxTime == 300

TickStep == 100

\* one strategy invocation: which strategy, what its tool did, what it returned
Invocation(s, run, res) ==
    [s |-> s, kind |-> run.kind, stdout |-> run.stdout, raised |-> res.raised, ret |-> res.value]

\* a mutant of the cache test: an empty cached list counts as cached
CacheHitEvenEmpty(use_cache) ==
    /\ use_cache
    /\ last_scan_time # NoTime
    /\ now - last_scan_time < cache_duration

\* a mutant of the cache test: a cached list never grows stale
CacheHitIgnoringAge(use_cache) ==
    /\ use_cache
    /\ devices_cache # <<>>
    /\ last_scan_time # NoTime

\* a mutant of the cache test: use_cache is not looked at
CacheHitIgnoringFlag(use_cache) ==
    /\ devices_cache # <<>>
    /\ last_scan_time # NoTime
    /\ now - last_scan_time < cache_duration

\* lines 272-278 of get_all_devices: the cached list is returned
CacheHit(use_cache) ==
    /\ use_cache
    /\ devices_cache # <<>>
    /\ last_scan_time # NoTime
    /\ now - last_scan_time < cache_duration

\* what the strategies do on each of the runs of their tools
Invocations(arpRuns, nmapRuns, tableRuns) ==
    [ arp |-> { Invocation("arp", r, scan_with_arp(r)) : r \in arpRuns },
      nmap |-> { Invocation("nmap", r, scan_with_nmap(r)) : r \in nmapRuns },
      table |-> { Invocation("table", r, _scan_arp_table(r)) : r \in tableRuns } ]

\* a mutant of the chain: arp-scan is tried a second time when it found nothing
ScanChainRetryArp(env, chain) ==
    \E a \in env.tools.arp :
        IF a.raised \/ a.ret # <<>> THEN chain = <<a>>
        ELSE \E b \in env.tools.arp :
            IF b.raised \/ b.ret # <<>> THEN chain = <<a, b>>
            ELSE \E n \in env.tools.nmap :
                IF n.raised \/ n.ret # <<>> THEN chain = <<a, b, n>>
                ELSE \E t \in env.tools.table : chain = <<a, b, n, t>>

\* a mutant of the chain: the ARP table is read whenever arp-scan found nothing
ScanChainAlwaysTable(env, chain) ==
    \E a \in env.tools.arp :
        IF a.raised \/ a.ret # <<>> THEN chain = <<a>>
        ELSE \E n \in env.tools.nmap :
            IF n.raised THEN chain = <<a, n>>
            ELSE \E t \in env.tools.table : chain = <<a, n, t>>

\* lines 284-292 of get_all_devices: chain is a possible course of the
\* strategies when the tools behave as in env
ScanChain(env, chain) ==
    \E a \in env.tools.arp :
        IF a.raised \/ a.ret # <<>> THEN chain = <<a>>
        ELSE \E n \in env.tools.nmap :
            IF n.raised \/ n.ret # <<>> THEN chain = <<a, n>>
            ELSE \E t \in env.tools.table : chain = <<a, n, t>>

\* NetworkScanner.get_all_devices(use_cache), also as called by
\* detect_presence; a scan takes some time d of the clock
get_all_devices(env, use_cache) ==
    IF CacheHit(use_cache)
    THEN /\ invoked' = <<>>
         /\ ret' = devices_cache
         /\ escaped' = FALSE
         /\ UNCHANGED <<devices_cache, last_scan_time, now>>
    ELSE /\ ScanChain(env, invoked')
         /\ LET last == invoked'[Len(invoked')]
            IN  IF last.raised
                THEN /\ escaped' = TRUE
                     /\ ret' = <<>>
                     /\ UNCHANGED <<devices_cache, last_scan_time, now>>
                ELSE /\ escaped' = FALSE
                     /\ ret' = last.ret
                     /\ devices_cache' = last.ret
                     /\ \E d \in env.durations :
                           /\ now + d <= MaxTime
                           /\ now' = now + d
                           /\ last_scan_time' = now + d

\* ------------------------------------------------------------------------
\* Presence matcher
\* ------------------------------------------------------------------------
\* {d['mac'] for d in devices if d.get('mac')}
DeviceMacs(devices) ==
    { devices[i].mac : i \in { j \in 1..Len(devices) : devices[j].mac # None } }

\* a mutant of the loop: names are inserted at the front of the lists
RECURSIVE MatchLoopPrepend(_, _, _, _)
MatchLoopPrepend(items, device_macs, pres, abs) ==
    IF items = <<>> THEN <<pres, abs>>
    ELSE LET name == items[1][1]
             mac == items[1][2]
         IN  IF mac \in device_macs
             THEN MatchLoopPrepend(Tail(items), device_macs, <<name>> \o pres, abs)
             ELSE MatchLoopPrepend(Tail(items), device_macs, pres, <<name>> \o abs)

\* a mutant of the loop: the else is lost, every name is also appended to absent
RECURSIVE MatchLoopNoElse(_, _, _, _)
MatchLoopNoElse(items, device_macs, pres, abs) ==
    IF items = <<>> THEN <<pres, abs>>
    ELSE LET name == items[1][1]
             mac == items[1][2]
         IN  IF mac \in device_macs
             THEN MatchLoopNoElse(Tail(items), device_macs, Append(pres, name), Append(abs, name))
             ELSE MatchLoopNoElse(Tail(items), device_macs, pres, Append(abs, name))

\* the loop of detect_presence over self.colleagues.items()
RECURSIVE MatchLoop(_, _, _, _)
MatchLoop(items, device_macs, pres, abs) ==
    IF items = <<>> THEN <<pres, abs>>
    ELSE LET name == items[1][1]
             mac == items[1][2]
         IN  IF mac \in device_macs
             THEN MatchLoop(Tail(items), device_macs, Append(pres, name), abs)
             ELSE MatchLoop(Tail(items), device_macs, pres, Append(abs, name))

\* a mutant of the matcher: without devices nobody is reported at all
MatchPresenceNoDevicesNoNames(roster, devices) ==
    IF roster = <<>> \/ devices = <<>> THEN << <<>>, <<>> >>
    ELSE MatchLoop(roster, DeviceMacs(devices), <<>>, <<>>)

\* a mutant of the matcher: it walks the devices, an unknown one is
\* reported absent under its address
MatchPresenceByDevice(roster, devices) ==
    LET known(i) == { j \in 1..Len(roster) : roster[j][2] = devices[i].mac }
        label(i) == IF known(i) = {} THEN devices[i].ip
                    ELSE roster[CHOOSE j \in known(i) : TRUE][1]
        all == [i \in 1..Len(devices) |-> label(i)]
        hit(n) == n \in { roster[j][1] : j \in 1..Len(roster) }
        miss(n) == ~hit(n)
    IN  << SelectSeq(all, hit), SelectSeq(all, miss) >>

\* lines 341-362 of detect_presence, given the device list
MatchPresence(roster, devices) ==
    IF roster = <<>> THEN << <<>>, <<>> >>
    ELSE IF devices = <<>> THEN << <<>>, DictKeys(roster) >>
    ELSE MatchLoop(roster, DeviceMacs(devices), <<>>, <<>>)

\* ------------------------------------------------------------------------
\* Environment: roster files and tool runs
\* ------------------------------------------------------------------------
MaxRoster == 2

SeqsUpTo(S, n) == UNION { [1..m -> S] : m \in 0..n }

MacUpperColon == <<"A","A",":","B","B",":","C","C",":","D","D",":","E","E",":","F","F">>

MacLowerDash == <<"a","a","-","b","b","-","c","c","-","d","d","-","e","e","-","f","f">>

MacLowerColon == <<"a","a",":","b","b",":","c","c",":","d","d",":","e","e",":","f","f">>

MacDigitsOnly == <<"1","1",":","2","2",":","3","3",":","4","4",":","5","5",":","6","6">>

\* "not-a-mac"
MacNotAMac == <<"n","o","t","-","a","-","m","a","c">>

\* a MAC printed without leading zeros, as BSD arp does
MacShort == <<"0",":","1",":","2",":","3",":","4",":","5">>

\* a truncated address
MacFiveOctets == <<"0","0",":","1","1",":","2","2",":","3","3",":","4","4">>

\* "<incomplete>" abbreviated
MacIncomplete == <<"<","i","n","c",">">>

Names == {"Alice", "Bob"}

RawMacs == {MacUpperColon, MacDigitsOnly, MacNotAMac, NonStr}

File(kind, pairs) == [kind |-> kind, pairs |-> pairs]

RosterFiles ==
    { File(k, <<>>) : k \in {"missing", "unreadable", "badjson", "notdict"} }
    \cup { File("ok", ps) : ps \in SeqsUpTo(Names \X RawMacs, MaxRoster) }

Line(k, ip, mac) == [k |-> k, ip |-> ip, mac |-> mac]

Run(kind, stdout) == [kind |-> kind, stdout |-> stdout]

\* arp-scan output: banner, a device, a line without a tab, a second device
ArpOutGood ==
    << Line("banner", "", <<>>), Line("fields", "10.0.0.1", MacLowerDash),
       Line("notab", "", <<>>), Line("fields", "10.0.0.2", MacDigitsOnly) >>

\* arp-scan output whose only tabbed line carries no MAC
ArpOutBad == << Line("banner", "", <<>>), Line("fields", "10.0.0.2", MacNotAMac) >>

\* nmap output: one host with its MAC
NmapOutGood ==
    << Line("other", "", <<>>), Line("report", "10.0.0.1", <<>>),
       Line("mac", "", MacUpperColon) >>

\* nmap output: one host whose MAC line is truncated
NmapOutBad == << Line("report", "10.0.0.5", <<>>), Line("mac", "", MacFiveOctets) >>

\* nmap output: no host is up
NmapOutNone == << Line("other", "", <<>>) >>

\* arp -a output: a full address and one printed without leading zeros
TableOutGood ==
    << Line("entry", "10.0.0.1", MacLowerColon), Line("other", "", <<>>),
       Line("entry", "10.0.0.3", MacShort) >>

\* arp -a output: one address printed without leading zeros
TableOutShort == << Line("entry", "10.0.0.3", MacShort) >>

\* arp -a output: one incomplete entry
TableOutNone == << Line("entry", "10.0.0.4", MacIncomplete) >>

\* every way the tools can behave, with a fixed roster
ScanEnv ==
    [ tools |-> Invocations(
          { Run("notinstalled", <<>>), Run("oserror", <<>>), Run("timeout", <<>>),
            Run("nonzero", ArpOutGood), Run("ok", ArpOutGood), Run("ok", ArpOutBad) },
          { Run("notinstalled", <<>>), Run("oserror", <<>>), Run("timeout", <<>>),
            Run("nonzero", NmapOutGood), Run("ok", NmapOutGood),
            Run("ok", NmapOutBad), Run("ok", NmapOutNone) },
          { Run("oserror", <<>>), Run("nonzero", TableOutShort),
            Run("ok", TableOutGood), Run("ok", TableOutNone) }),
      durations |-> {0, TickStep} ]

\* every roster file, with a few behaviours of the tools
RosterEnv ==
    [ tools |-> Invocations(
          { Run("timeout", <<>>), Run("ok", ArpOutGood),
            Run("ok", << Line("fields", "10.0.0.1", MacLowerDash) >>),
            Run("ok", << Line("fields", "10.0.0.2", MacDigitsOnly) >>) },
          { Run("notinstalled", <<>>) },
          { Run("oserror", <<>>), Run("ok", TableOutGood) }),
      durations |-> {0} ]

IpRouteRuns == {"oserror", "nodefault", "default"}

\* ------------------------------------------------------------------------
\* Actions
\* ------------------------------------------------------------------------
Call(op, use_cache, hit) == [op |-> op, use_cache |-> use_cache, hit |-> hit]

NormIdle ==
    /\ macIn = <<>>
    /\ macOut = <<>>
    /\ macOut2 = <<>>
    /\ normPc = "off"

\* the concurrent callers of the scanner
Callers == {1, 2}

ConcIdle ==
    /\ pc = [t \in Callers |-> "idle"]
    /\ local = [t \in Callers |-> <<>>]

\* PresenceTracker.__init__ after the scanner is built
TrackerInit ==
    /\ running = FALSE
    /\ loops = <<>>
    /\ current_presence = << <<>>, <<>> >>

NoResponse == [status |-> 0, present |-> <<>>, absent |-> <<>>, total |-> 0]

DashIdle ==
    /\ available = TRUE
    /\ got = Returns(<< <<>>, <<>> >>)
    /\ response = NoResponse

\* NetworkScanner.__init__ on one of the files, after one of the ipRoutes
Construct(files, ipRoutes) ==
    \E file \in files, ipRoute \in ipRoutes :
        LET loaded == _load_colleagues(file)
            range == _detect_network_range(ipRoute)
            iface == _detect_interface(ipRoute)
        IN  /\ rosterFile = file
            /\ colleagues = loaded.value
            /\ network_range = range.value
            /\ interface = iface.value
            /\ escaped = (loaded.raised \/ range.raised \/ iface.raised)
            /\ devices_cache = <<>>
            /\ last_scan_time = NoTime
            /\ now = 0
            /\ call = Call("init", FALSE, FALSE)
            /\ invoked = <<>>
            /\ ret = <<>>
            /\ present = <<>>
            /\ absent = <<>>

\* there is a scanner to call only if __init__ returned
Constructed == ~(call.op = "init" /\ escaped)

ScannerFrame == UNCHANGED <<rosterFile, colleagues, network_range, interface, normVars>>

Frame == ScannerFrame /\ UNCHANGED <<concVars, trackerVars, dashVars>>

\* a caller runs scanner.get_all_devices(use_cache)
GetAllDevicesIn(env) ==
    \E use_cache \in BOOLEAN :
        /\ Constructed
        /\ get_all_devices(env, use_cache)
        /\ call' = Call("get_all_devices", use_cache, CacheHit(use_cache))
        /\ present' = <<>>
        /\ absent' = <<>>
        /\ Frame

\* the entries of the roster whose names are in the list
Restrict(roster, names) ==
    LET kept(e) == \E i \in 1..Len(names) : names[i] = e[1]
    IN  SelectSeq(roster, kept)

\* a mutant of detect_presence: colleagues found absent are dropped from the roster
detect_presence_pruning(env) ==
    /\ get_all_devices(env, TRUE)
    /\ call' = Call("detect_presence", TRUE, CacheHit(TRUE))
    /\ LET res == MatchPresence(colleagues, ret')
       IN  IF escaped' THEN present' = <<>> /\ absent' = <<>>
           ELSE present' = res[1] /\ absent' = res[2]
    /\ colleagues' = IF escaped' THEN colleagues ELSE Restrict(colleagues, present')

\* NetworkScanner.detect_presence(): self.colleagues is read, never assigned
detect_presence(env) ==
    /\ get_all_devices(env, TRUE)
    /\ call' = Call("detect_presence", TRUE, CacheHit(TRUE))
    /\ LET res == MatchPresence(colleagues, ret')
       IN  IF escaped' THEN present' = <<>> /\ absent' = <<>>
           ELSE present' = res[1] /\ absent' = res[2]
    /\ UNCHANGED colleagues

\* a caller runs scanner.detect_presence()
DetectPresenceIn(env) ==
    /\ Constructed
    /\ detect_presence(env)
    /\ Frame

\* time passes
Tick ==
    /\ Constructed
    /\ now + TickStep <= MaxTime
    /\ now' = now + TickStep
    /\ call' = Call("tick", FALSE, FALSE)
    /\ UNCHANGED <<rosterFile, colleagues, network_range, interface, devices_cache,
                   last_scan_time, invoked, ret, present, absent, escaped, normVars,
                   concVars, trackerVars, dashVars>>

\* --- the scanner over every roster file, the clock standing still ---
Init == Construct(RosterFiles, IpRouteRuns) /\ NormIdle /\ ConcIdle /\ TrackerInit /\ DashIdle

GetAllDevices == GetAllDevicesIn(RosterEnv)

DetectPresence == DetectPresenceIn(RosterEnv)

Next == GetAllDevices \/ DetectPresence

Spec == Init /\ [][Next]_vars

\* --- the scanner over every behaviour of the tools ---
ScanRosterFiles ==
    { File("badjson", <<>>),
      File("ok", << <<"Alice", MacUpperColon>>, <<"Bob", MacDigitsOnly>> >>) }

InitScan ==
    Construct(ScanRosterFiles, {"default"}) /\ NormIdle /\ ConcIdle /\ TrackerInit /\ DashIdle

ScanGetAllDevices == GetAllDevicesIn(ScanEnv)

ScanDetectPresence == DetectPresenceIn(ScanEnv)

NextScan == ScanGetAllDevices \/ ScanDetectPresence \/ Tick

SpecScan == InitScan /\ [][NextScan]_vars

\* --- two request threads of the dashboard inside get_all_devices ---
\* Each thread runs get_all_devices(use_cache=True) statement by statement;
\* the other thread may run between any two of its subprocess calls and
\* between the two assignments of lines 295-296.
ConcEnv ==
    [ tools |-> Invocations(
          { Run("timeout", <<>>), Run("ok", ArpOutGood) },
          { Run("notinstalled", <<>>), Run("ok", NmapOutGood) },
          { Run("ok", TableOutNone), Run("ok", TableOutGood) }),
      durations |-> {0} ]

ConcFrame ==
    UNCHANGED <<rosterFile, colleagues, network_range, interface, call, invoked, ret,
                present, absent, escaped, normVars, trackerVars, dashVars>>

Scanning(t) == pc[t] \in {"arp", "nmap", "table"}

\* a mutant of the entry: the chain is entered under a lock, one caller at a time
ConcBeginLocked(t) ==
    /\ pc[t] = "idle"
    /\ IF CacheHit(TRUE)
       THEN /\ local' = [local EXCEPT ![t] = devices_cache]
            /\ pc' = pc
       ELSE /\ \A u \in Callers \ {t} : pc[u] = "idle"
            /\ local' = [local EXCEPT ![t] = <<>>]
            /\ pc' = [pc EXCEPT ![t] = "arp"]
    /\ UNCHANGED <<devices_cache, last_scan_time, now>>
    /\ ConcFrame

\* lines 272-281: the cache test; a hit returns the cached list at once
ConcBegin(t) ==
    /\ pc[t] = "idle"
    /\ IF CacheHit(TRUE)
       THEN /\ local' = [local EXCEPT ![t] = devices_cache]
            /\ pc' = pc
       ELSE /\ local' = [local EXCEPT ![t] = <<>>]
            /\ pc' = [pc EXCEPT ![t] = "arp"]
    /\ UNCHANGED <<devices_cache, last_scan_time, now>>
    /\ ConcFrame

\* lines 284 and 287: devices = self.scan_with_arp()
ConcArp(t) ==
    /\ pc[t] = "arp"
    /\ \E a \in ConcEnv.tools.arp :
          /\ local' = [local EXCEPT ![t] = a.ret]
          /\ pc' = [pc EXCEPT ![t] = IF a.ret = <<>> THEN "nmap" ELSE "store"]
    /\ UNCHANGED <<devices_cache, last_scan_time, now>>
    /\ ConcFrame

\* lines 288 and 291: devices = self.scan_with_nmap()
ConcNmap(t) ==
    /\ pc[t] = "nmap"
    /\ \E n \in ConcEnv.tools.nmap :
          /\ local' = [local EXCEPT ![t] = n.ret]
          /\ pc' = [pc EXCEPT ![t] = IF n.ret = <<>> THEN "table" ELSE "store"]
    /\ UNCHANGED <<devices_cache, last_scan_time, now>>
    /\ ConcFrame

\* line 292: devices = self._scan_arp_table()
ConcTable(t) ==
    /\ pc[t] = "table"
    /\ \E r \in ConcEnv.tools.table :
          /\ local' = [local EXCEPT ![t] = r.ret]
          /\ pc' = [pc EXCEPT ![t] = "store"]
    /\ UNCHANGED <<devices_cache, last_scan_time, now>>
    /\ ConcFrame

\* line 295: self.devices_cache = devices
ConcStore(t) ==
    /\ pc[t] = "store"
    /\ devices_cache' = local[t]
    /\ pc' = [pc EXCEPT ![t] = "stamp"]
    /\ UNCHANGED <<local, last_scan_time, now>>
    /\ ConcFrame

\* a mutant of the time stamp: a scan that found nothing clears it
ConcStampResetOnEmpty(t) ==
    /\ pc[t] = "stamp"
    /\ last_scan_time' = IF local[t] = <<>> THEN NoTime ELSE now
    /\ pc' = [pc EXCEPT ![t] = "idle"]
    /\ UNCHANGED <<local, devices_cache, now>>
    /\ ConcFrame

\* lines 296-298: self.last_scan_time = datetime.now(); return devices
ConcStamp(t) ==
    /\ pc[t] = "stamp"
    /\ last_scan_time' = now
    /\ pc' = [pc EXCEPT ![t] = "idle"]
    /\ UNCHANGED <<local, devices_cache, now>>
    /\ ConcFrame

ConcStep ==
    \E t \in Callers :
        \/ ConcBegin(t)
        \/ ConcArp(t)
        \/ ConcNmap(t)
        \/ ConcTable(t)
        \/ ConcStore(t)
        \/ ConcStamp(t)

InitConc ==
    Construct(ScanRosterFiles, {"default"}) /\ NormIdle /\ ConcIdle /\ TrackerInit /\ DashIdle

NextConc == ConcStep \/ Tick

SpecConc == InitConc /\ [][NextConc]_vars

\* --- the PresenceTracker and the scanner it owns ---
scan_interval == 300

\* the number of scan-loop threads ever started
MaxLoops == 2

\* arp-scan finds the two devices or times out; nothing else finds any
TrackerEnv ==
    [ tools |-> Invocations(
          { Run("timeout", <<>>), Run("ok", ArpOutGood) },
          { Run("notinstalled", <<>>) },
          { Run("ok", TableOutNone) }),
      durations |-> {0} ]

\* the courses the strategies can take when the tools behave as in env
Chains(env) ==
    LET T == env.tools
        cand == { <<a>> : a \in T.arp }
                \cup { <<a, n>> : a \in T.arp, n \in T.nmap }
                \cup { <<a, n, t>> : a \in T.arp, n \in T.nmap, t \in T.table }
    IN  { c \in cand : ScanChain(env, c) }

\* get_all_devices(use_cache) called when the scanner holds cache, last and
\* the clock shows t: what it invokes, what it returns, what it leaves
Scanned(env, use_cache, cache, last, t) ==
    IF use_cache /\ cache # <<>> /\ last # NoTime /\ t - last < cache_duration
    THEN { [invoked |-> <<>>, ret |-> cache, raised |-> FALSE,
            cache |-> cache, last |-> last, now |-> t] }
    ELSE { IF c[Len(c)].raised
           THEN [invoked |-> c, ret |-> <<>>, raised |-> TRUE,
                 cache |-> cache, last |-> last, now |-> t]
           ELSE [invoked |-> c, ret |-> c[Len(c)].ret, raised |-> FALSE,
                 cache |-> c[Len(c)].ret, last |-> t + d, now |-> t + d]
           : c \in Chains(env), d \in { e \in env.durations : t + e <= MaxTime } }

\* NetworkScanner.get_detailed_presence(): line 371 calls get_all_devices,
\* line 372 calls detect_presence, which calls get_all_devices again; ret is
\* the list of line 371, present and absent are those of line 372
get_detailed_presence(env) ==
    /\ call' = Call("get_detailed_presence", TRUE, CacheHit(TRUE))
    /\ \E one \in Scanned(env, TRUE, devices_cache, last_scan_time, now) :
          IF one.raised
          THEN /\ invoked' = one.invoked
               /\ escaped' = TRUE
               /\ ret' = <<>>
               /\ present' = <<>>
               /\ absent' = <<>>
               /\ UNCHANGED <<devices_cache, last_scan_time, now>>
          ELSE \E two \in Scanned(env, TRUE, one.cache, one.last, one.now) :
               LET res == MatchPresence(colleagues, two.ret)
               IN  /\ invoked' = one.invoked \o two.invoked
                   /\ escaped' = two.raised
                   /\ ret' = IF two.raised THEN <<>> ELSE one.ret
                   /\ present' = IF two.raised THEN <<>> ELSE res[1]
                   /\ absent' = IF two.raised THEN <<>> ELSE res[2]
                   /\ devices_cache' = two.cache
                   /\ last_scan_time' = two.last
                   /\ now' = two.now
    /\ UNCHANGED colleagues

LoopThread(at, wake) == [pc |-> at, wake |-> wake]

TrackerFrame == UNCHANGED <<rosterFile, network_range, interface, normVars, concVars, dashVars>>

ScannerQuiet ==
    UNCHANGED <<colleagues, devices_cache, last_scan_time, now, invoked, ret,
                present, absent, escaped>>

\* PresenceTracker.start()
Start ==
    /\ Constructed
    /\ IF running
       THEN UNCHANGED <<running, loops>>
       ELSE /\ Len(loops) < MaxLoops
            /\ running' = TRUE
            /\ loops' = Append(loops, LoopThread("top", 0))
    /\ call' = Call("start", FALSE, FALSE)
    /\ UNCHANGED current_presence
    /\ ScannerQuiet
    /\ TrackerFrame

\* self.thread.join(timeout=5) after running became False: the thread of
\* self.thread, the last one started, ends within a second when it sleeps
\* or stands at the loop test; a scan can outlast the timeout (arp-scan is
\* given 30 s, nmap 60 s), and then join returns with the thread alive
Joined(ls) ==
    IF ls # <<>> /\ ls[Len(ls)].pc \in {"top", "sleep"}
    THEN [ls EXCEPT ![Len(ls)] = LoopThread("done", 0)]
    ELSE ls

\* PresenceTracker.stop()
Stop ==
    /\ Constructed
    /\ running' = FALSE
    /\ loops' = Joined(loops)
    /\ call' = Call("stop", FALSE, FALSE)
    /\ UNCHANGED current_presence
    /\ ScannerQuiet
    /\ TrackerFrame

\* a mutant of force_scan: the two lists are stored one after the other and
\* only the first store is reached
ForceScanPresentOnly ==
    /\ Constructed
    /\ detect_presence(TrackerEnv)
    /\ current_presence' = IF escaped' THEN current_presence
                           ELSE <<present', current_presence[2]>>
    /\ UNCHANGED <<running, loops>>
    /\ TrackerFrame

\* PresenceTracker.force_scan(): an exception of detect_presence propagates
ForceScan ==
    /\ Constructed
    /\ detect_presence(TrackerEnv)
    /\ current_presence' = IF escaped' THEN current_presence ELSE <<present', absent'>>
    /\ UNCHANGED <<running, loops>>
    /\ TrackerFrame

\* a mutant of the loop test: while True
LoopTestForever(i) ==
    /\ loops[i].pc = "top"
    /\ loops' = [loops EXCEPT ![i] = LoopThread("scan", 0)]
    /\ UNCHANGED <<running, current_presence, call>>
    /\ ScannerQuiet
    /\ TrackerFrame

\* _scan_loop, line 433: while self.running
LoopTest(i) ==
    /\ loops[i].pc = "top"
    /\ loops' = [loops EXCEPT ![i] = LoopThread(IF running THEN "scan" ELSE "done", 0)]
    /\ UNCHANGED <<running, current_presence, call>>
    /\ ScannerQuiet
    /\ TrackerFrame

\* _scan_loop, lines 434-443: the scan of one iteration, its exception caught
LoopScan(i) ==
    /\ loops[i].pc = "scan"
    /\ detect_presence(TrackerEnv)
    /\ current_presence' = IF escaped' THEN current_presence ELSE <<present', absent'>>
    /\ loops' = [loops EXCEPT ![i] = LoopThread("sleep", now' + scan_interval)]
    /\ UNCHANGED running
    /\ TrackerFrame

\* a mutant of the loop: no try around the scan, its exception ends the thread
LoopScanFaultedFatal(i) ==
    /\ loops[i].pc = "scan"
    /\ escaped' = TRUE
    /\ call' = Call("fault", FALSE, FALSE)
    /\ loops' = [loops EXCEPT ![i] = LoopThread("done", 0)]
    /\ UNCHANGED <<running, current_presence>>
    /\ UNCHANGED <<colleagues, devices_cache, last_scan_time, now, invoked, ret,
                   present, absent>>
    /\ TrackerFrame

\* _scan_loop, lines 434-443, when an exception leaves detect_presence: the
\* except clause logs it, line 437 is not reached, the sleep follows; the
\* scanner is left as it was
LoopScanFaulted(i) ==
    /\ loops[i].pc = "scan"
    /\ escaped' = TRUE
    /\ call' = Call("fault", FALSE, FALSE)
    /\ loops' = [loops EXCEPT ![i] = LoopThread("sleep", now + scan_interval)]
    /\ UNCHANGED <<running, current_presence>>
    /\ UNCHANGED <<colleagues, devices_cache, last_scan_time, now, invoked, ret,
                   present, absent>>
    /\ TrackerFrame

\* _scan_loop, lines 446-449: the sleep ends after scan_interval seconds, or
\* within a second of running becoming False
LoopWake(i) ==
    /\ loops[i].pc = "sleep"
    /\ ~running \/ now >= loops[i].wake
    /\ loops' = [loops EXCEPT ![i] = LoopThread("top", 0)]
    /\ UNCHANGED <<running, current_presence, call>>
    /\ ScannerQuiet
    /\ TrackerFrame

LoopStep ==
    \E i \in 1..Len(loops) :
        \/ LoopTest(i)
        \/ LoopScan(i)
        \/ LoopScanFaulted(i)
        \/ LoopWake(i)

\* tracker.scanner is a public attribute: its methods can be called too
TrackerGetAllDevices == GetAllDevicesIn(TrackerEnv)

TrackerDetectPresence == DetectPresenceIn(TrackerEnv)

\* PresenceTracker.get_detailed_presence()
TrackerGetDetailedPresence ==
    /\ Constructed
    /\ get_detailed_presence(TrackerEnv)
    /\ UNCHANGED trackerVars
    /\ TrackerFrame

InitTracker ==
    Construct(ScanRosterFiles, {"default"}) /\ NormIdle /\ ConcIdle /\ TrackerInit /\ DashIdle

NextTracker ==
    \/ Start
    \/ Stop
    \/ ForceScan
    \/ LoopStep
    \/ TrackerGetAllDevices
    \/ TrackerDetectPresence
    \/ TrackerGetDetailedPresence
    \/ Tick

SpecTracker == InitTracker /\ [][NextTracker]_vars

\* the steps of the i-th loop thread
LoopOf(i) ==
    /\ i \in 1..Len(loops)
    /\ (LoopTest(i) \/ LoopScan(i) \/ LoopScanFaulted(i) \/ LoopWake(i))

\* the tracker driven through its own methods only
NextLoops ==
    \/ Start
    \/ Stop
    \/ ForceScan
    \/ LoopStep
    \/ Tick

\* every started thread is scheduled again and again, and its scan returns
SpecTrackerFair ==
    InitTracker /\ [][NextLoops]_vars /\ \A i \in 1..MaxLoops : WF_vars(LoopOf(i))

\* --- the dashboard: /api/presence over the scanner and its fallback ---
\* p occurs in t: Python's `p in t` for two strings
IsSubstring(p, t) ==
    \E i \in 0..(Len(t) - Len(p)) : SubSeq(t, i + 1, i + Len(p)) = p

\* the text of `arp -a` as check_output returns it: of every entry the
\* part from " at " on, every line ended by a newline; the host name and
\* the bracketed address before it hold no letter and no colon pair
RECURSIVE OutputText(_)
OutputText(lines) ==
    IF lines = <<>> THEN <<>>
    ELSE LET line == Head(lines)
         IN  (IF line.k = "entry" THEN <<" ", "a", "t", " ">> \o line.mac ELSE <<>>)
             \o <<"\n">> \o OutputText(Tail(lines))

\* the loop of the fallback over colleagues.items(): a value that is not a
\* string has no lower(), an empty string is falsy
RECURSIVE FallbackLoop(_, _, _, _)
FallbackLoop(items, output, pres, abs) ==
    IF items = <<>> THEN Returns(<<pres, abs>>)
    ELSE LET name == items[1][1]
             mac == items[1][2]
         IN  IF mac = NonStr THEN Raises
             ELSE IF mac # <<>> /\ IsSubstring(Lower(mac), Lower(output))
                  THEN FallbackLoop(Tail(items), output, Append(pres, name), abs)
                  ELSE FallbackLoop(Tail(items), output, pres, Append(abs, name))

\* the try block of the fallback: check_output raises when arp cannot be
\* run or exits with a non-zero status
FallbackBody(file, run) ==
    CASE file.kind = "missing" -> Returns(<< <<>>, <<>> >>)
      [] file.kind \in {"unreadable", "badjson"} -> Raises
      [] run.kind # "ok" -> Raises
      [] file.kind = "notdict" -> Raises
      [] OTHER -> FallbackLoop(JsonObject(file.pairs), OutputText(run.stdout), <<>>, <<>>)

\* a mutant of the fallback: no except clause
FallbackNoExcept(file, run) == FallbackBody(file, run)

\* get_present_absent_colleagues_fallback
get_present_absent_colleagues_fallback(file, run) ==
    LET body == FallbackBody(file, run)
    IN  IF body.raised THEN Returns(<< <<>>, <<>> >>) ELSE body

\* the 500 answer has no "total" key
NoTotal == -1

Response(status, pres, abs, total) ==
    [status |-> status, present |-> pres, absent |-> abs, total |-> total]

\* a mutant of the handler: total counts the present names only
api_presence_present_only(res) ==
    IF res.raised
    THEN Response(500, <<>>, <<>>, NoTotal)
    ELSE Response(200, res.value[1], res.value[2], Len(res.value[1]))

\* api_presence, given what line 1245 came to: the answer without its
\* timestamp and error text
api_presence(res) ==
    IF res.raised
    THEN Response(500, <<>>, <<>>, NoTotal)
    ELSE Response(200, res.value[1], res.value[2], Len(res.value[1]) + Len(res.value[2]))

DashRosterFiles ==
    { File("missing", <<>>), File("badjson", <<>>), File("notdict", <<>>),
      File("ok", << <<"Alice", MacUpperColon>>, <<"Bob", MacDigitsOnly>> >>),
      File("ok", << <<"Bob", MacLowerColon>>, <<"Alice", <<>> >> >>),
      File("ok", << <<"Alice", MacLowerColon>>, <<"Bob", NonStr>> >>) }

DashEnv ==
    [ tools |-> Invocations(
          { Run("timeout", <<>>), Run("ok", ArpOutGood) },
          { Run("notinstalled", <<>>) },
          { Run("oserror", <<>>), Run("ok", TableOutGood) }),
      durations |-> {0} ]

\* what `arp -a` can do when the fallback runs it
FallbackRuns ==
    { Run("notinstalled", <<>>), Run("nonzero", TableOutGood),
      Run("ok", TableOutGood), Run("ok", TableOutNone) }

DashFrame ==
    UNCHANGED <<rosterFile, network_range, interface, normVars, concVars, trackerVars,
                available>>

\* get_present_absent_colleagues with the scanner imported: detect_presence,
\* and the fallback if it raises
ViaScanner(run) ==
    /\ available
    /\ detect_presence(DashEnv)
    /\ got' = IF escaped'
              THEN get_present_absent_colleagues_fallback(rosterFile, run)
              ELSE Returns(<<present', absent'>>)

\* get_present_absent_colleagues when an exception leaves detect_presence:
\* the except clause of line 86 calls the fallback; the scanner is left as
\* it was
ViaScannerFaulted(run) ==
    /\ available
    /\ escaped' = TRUE
    /\ got' = get_present_absent_colleagues_fallback(rosterFile, run)
    /\ call' = Call("fallback", FALSE, FALSE)
    /\ UNCHANGED <<colleagues, devices_cache, last_scan_time, now, invoked, ret,
                   present, absent>>

\* get_present_absent_colleagues without the scanner: the fallback alone
ViaFallback(run) ==
    /\ ~available
    /\ got' = get_present_absent_colleagues_fallback(rosterFile, run)
    /\ call' = Call("fallback", FALSE, FALSE)
    /\ ScannerQuiet

\* a request to /api/presence whose call of line 1245 returns
ApiPresence ==
    /\ Constructed
    /\ \E run \in FallbackRuns :
          ViaScanner(run) \/ ViaScannerFaulted(run) \/ ViaFallback(run)
    /\ response' = api_presence(got')
    /\ DashFrame

\* a request to /api/presence in which an exception reaches the handler's
\* except clause from inside the try block, the scanner left as it was
ApiPresenceFaulted ==
    /\ Constructed
    /\ got' = Raises
    /\ response' = api_presence(got')
    /\ call' = Call("fault", FALSE, FALSE)
    /\ ScannerQuiet
    /\ DashFrame

InitDash ==
    /\ Construct(DashRosterFiles, {"default"})
    /\ NormIdle /\ ConcIdle /\ TrackerInit
    /\ available \in BOOLEAN
    /\ got = Returns(<< <<>>, <<>> >>)
    /\ response = NoResponse

NextDash == ApiPresence \/ ApiPresenceFaulted \/ Tick

SpecDash == InitDash /\ [][NextDash]_vars

\* --- the fallback beside detect_presence, on one roster and one ARP table ---
EquivMacs == {MacUpperColon, MacLowerColon, MacLowerDash, MacNotAMac}

EquivRosterFiles ==
    { File("missing", <<>>), File("badjson", <<>>) }
    \cup { File("ok", ps) : ps \in SeqsUpTo(Names \X EquivMacs, MaxRoster) }

\* what `arp -a` can do
EquivRuns ==
    { Run("oserror", <<>>), Run("nonzero", TableOutGood),
      Run("ok", TableOutGood), Run("ok", TableOutNone) }

\* arp-scan and nmap find nothing, so that get_all_devices comes to the
\* ARP table, where `arp -a` does as in run
EquivEnv(run) ==
    [ tools |-> Invocations({ Run("timeout", <<>>) }, { Run("notinstalled", <<>>) }, { run }),
      durations |-> {0} ]

\* detect_presence and the fallback, each on the same run of `arp -a`
Classify ==
    /\ Constructed
    /\ \E run \in EquivRuns :
          /\ detect_presence(EquivEnv(run))
          /\ got' = get_present_absent_colleagues_fallback(rosterFile, run)
    /\ UNCHANGED response
    /\ DashFrame

InitEquiv ==
    Construct(EquivRosterFiles, {"default"}) /\ NormIdle /\ ConcIdle /\ TrackerInit /\ DashIdle

NextEquiv == Classify

SpecEquiv == InitEquiv /\ [][NextEquiv]_vars

\* --- _normalize_mac on its own ---
ScannerIdle ==
    /\ rosterFile = File("missing", <<>>)
    /\ colleagues = <<>>
    /\ network_range = "192.168.1.0/24"
    /\ interface = "wlan0"
    /\ devices_cache = <<>>
    /\ last_scan_time = NoTime
    /\ now = 0
    /\ call = Call("init", FALSE, FALSE)
    /\ invoked = <<>>
    /\ ret = <<>>
    /\ present = <<>>
    /\ absent = <<>>
    /\ escaped = FALSE

InitNorm ==
    /\ macIn \in NormInputs
    /\ macOut = <<>>
    /\ macOut2 = <<>>
    /\ normPc = "input"
    /\ ScannerIdle
    /\ ConcIdle
    /\ TrackerInit
    /\ DashIdle

\* normalized = self._normalize_mac(mac)
Normalize ==
    /\ normPc = "input"
    /\ macOut' = _normalize_mac(macIn)
    /\ normPc' = "once"
    /\ UNCHANGED <<macIn, macOut2, scannerVars, concVars, trackerVars, dashVars>>

\* the result fed back into _normalize_mac
NormalizeAgain ==
    /\ normPc = "once"
    /\ macOut2' = _normalize_mac(macOut)
    /\ normPc' = "twice"
    /\ UNCHANGED <<macIn, macOut, scannerVars, concVars, trackerVars, dashVars>>

NextNorm == Normalize \/ NormalizeAgain

SpecNorm == InitNorm /\ [][NextNorm]_vars

\* ------------------------------------------------------------------------
\* Properties
\* ------------------------------------------------------------------------
Range(s) == { s[i] : i \in 1..Len(s) }

Count(s, x) == Cardinality({ i \in 1..Len(s) : s[i] = x })

HexCount(s) == Cardinality({ i \in 1..Len(s) : s[i] \in HexChars })

\* the i-th hex digit of s, counted from 1
HexAt(s, i) ==
    LET at == { j \in 1..Len(s) :
                  /\ s[j] \in HexChars
                  /\ Cardinality({ k \in 1..j : s[k] \in HexChars }) = i }
    IN  s[CHOOSE j \in at : TRUE]

\* AA:BB:CC:DD:EE:FF
IsCanonicalMac(m) ==
    /\ Len(m) = 17
    /\ \A i \in 1..17 :
          IF i % 3 = 0 THEN m[i] = ":" ELSE m[i] \in HexUpper \cup DecDigits

IsCall == call.op \in {"get_all_devices", "detect_presence"}

RosterNames == Range(DictKeys(colleagues))

\* C1: after detect_presence, every name of the loaded roster occurs exactly
\* once in present and absent taken together, and the two lists hold no
\* other name.
C1_Partition ==
    (call.op = "detect_presence" /\ ~escaped) =>
        /\ \A n \in RosterNames : Count(present, n) + Count(absent, n) = 1
        /\ Range(present) \cup Range(absent) \subseteq RosterNames

C1_Witness ==
    /\ call.op = "detect_presence"
    /\ Len(colleagues) = 2
    /\ Len(present) = 1
    /\ Len(absent) = 1
    /\ \E i \in 1..Len(ret) : ret[i].mac = None

StrategyOrder == <<"arp", "nmap", "table">>

\* C2: a get_all_devices that scans invokes arp-scan, nmap, ARP table in that
\* order, stops at the first strategy that returns a non-empty list (going on
\* only past empty ones) and returns exactly the list of the last strategy
\* it invoked.
C2_FirstNonEmptyWins ==
    (IsCall /\ ~call.hit /\ ~escaped) =>
        /\ Len(invoked) \in 1..3
        /\ \A i \in 1..Len(invoked) : invoked[i].s = StrategyOrder[i]
        /\ \A i \in 1..Len(invoked) : invoked[i].ret # <<>> => i = Len(invoked)
        /\ Len(invoked) < 3 => invoked[Len(invoked)].ret # <<>>
        /\ ret = invoked[Len(invoked)].ret

C2_Witness ==
    /\ IsCall
    /\ ~call.hit
    /\ Len(invoked) = 2
    /\ invoked[1].ret = <<>>
    /\ invoked[2].s = "nmap"
    /\ invoked[2].ret # <<>>
    /\ ret = invoked[2].ret

CallStep == call'.op \in {"get_all_devices", "detect_presence"}

Fresh == last_scan_time # NoTime /\ now - last_scan_time < cache_duration

\* C3 as stated: a use_cache call made less than cache_duration after a
\* completed scan invokes no strategy and returns the memoized list,
\* whatever that scan found.
C3_HitByTimeOnly ==
    [][ (CallStep /\ call'.use_cache /\ Fresh)
            => (invoked' = <<>> /\ ret' = devices_cache) ]_vars

\* C3 amended: a use_cache call made less than cache_duration after a scan
\* that found at least one device invokes no strategy and returns the
\* memoized list; after a scan that found nothing the next call always runs
\* the chain again.
C3_HitWhenFreshAndNonEmpty ==
    [][ (CallStep /\ call'.use_cache)
            => /\ (Fresh /\ devices_cache # <<>>)
                    => (call'.hit /\ invoked' = <<>> /\ ret' = devices_cache
                        /\ devices_cache' = devices_cache
                        /\ last_scan_time' = last_scan_time)
               /\ devices_cache = <<>> => (~call'.hit /\ invoked' # <<>>) ]_vars

C3_Witness ==
    /\ IsCall
    /\ call.use_cache
    /\ call.hit
    /\ invoked = <<>>
    /\ now - last_scan_time = 2 * TickStep
    /\ ret = devices_cache
    /\ ret # <<>>

\* C4: every device in the list a scan returns carries a normalized MAC
\* (AA:BB:CC:DD:EE:FF); a line whose MAC does not normalize gives no device.
C4_EveryDeviceHasMac ==
    \A i \in 1..Len(ret) : IsCanonicalMac(ret[i].mac)

FailKinds == {"notinstalled", "oserror", "nonzero", "timeout"}

\* C5: a strategy whose tool is unavailable, exits non-zero or times out
\* returns the empty list, and the next strategy of the chain is invoked.
C5_FailureYieldsEmpty ==
    (IsCall /\ ~call.hit) =>
        \A i \in 1..Len(invoked) :
            invoked[i].kind \in FailKinds =>
                /\ invoked[i].ret = <<>>
                /\ i < 3 => Len(invoked) > i

\* C6: when arp-scan times out, scan_with_arp returns the empty list
\* without raising and nmap is invoked next, as after an arp-scan that ran
\* and found nothing.
C6_ArpTimeoutFallsThrough ==
    (IsCall /\ ~call.hit /\ invoked[1].kind = "timeout") =>
        /\ ~invoked[1].raised
        /\ invoked[1].ret = <<>>
        /\ ~escaped
        /\ Len(invoked) >= 2
        /\ invoked[2].s = "nmap"

C6_Witness ==
    /\ IsCall
    /\ Len(invoked) = 2
    /\ invoked[1].s = "arp"
    /\ invoked[1].kind = "timeout"
    /\ invoked[2].ret # <<>>
    /\ ret = invoked[2].ret

\* C7: no exception leaves the constructor, get_all_devices or
\* detect_presence, whatever the roster file and the tools do; the call
\* returns lists.
C7_NothingEscapes ==
    /\ ~escaped
    /\ \A i \in 1..Len(invoked) : ~invoked[i].raised
    /\ Range(present) \cup Range(absent) \subseteq Names

C7_Witness ==
    /\ rosterFile.kind = "badjson"
    /\ call.op = "detect_presence"
    /\ Len(invoked) = 3
    /\ invoked[1].kind = "timeout"
    /\ invoked[2].kind = "oserror"
    /\ invoked[3].kind = "oserror"
    /\ ~escaped
    /\ present = <<>>
    /\ absent = <<>>

\* the raw MAC the JSON object of the file gives name n: the last one written
FinalRaw(n) ==
    LET ps == rosterFile.pairs
        last == CHOOSE i \in 1..Len(ps) :
                    /\ ps[i][1] = n
                    /\ \A j \in (i + 1)..Len(ps) : ps[j][1] # n
    IN  ps[last][2]

FileNames == { rosterFile.pairs[i][1] : i \in 1..Len(rosterFile.pairs) }

AllStrings == \A i \in 1..Len(rosterFile.pairs) : rosterFile.pairs[i][2] # NonStr

C9_NoRosterIsEmptyRoster ==
    rosterFile.kind # "ok" =>
        /\ ~escaped
        /\ colleagues = <<>>
        /\ call.op = "detect_presence" => (present = <<>> /\ absent = <<>>)

C9_Witness ==
    /\ rosterFile.kind = "badjson"
    /\ call.op = "detect_presence"
    /\ ret # <<>>
    /\ present = <<>>
    /\ absent = <<>>

\* C10: for an input with exactly 12 hex digits, _normalize_mac returns six
\* colon-separated pairs of upper-case hex digits, the digits of the input
\* in their order, and normalizing the result returns it unchanged.
C10_NormalizeCanonicalIdempotent ==
    (normPc \in {"once", "twice"} /\ macIn # None /\ HexCount(macIn) = MacDigits) =>
        /\ IsCanonicalMac(macOut)
        /\ \A i \in 1..MacDigits : HexAt(macOut, i) = UpperChar(HexAt(macIn, i))
        /\ normPc = "twice" => macOut2 = macOut

C10_Witness ==
    /\ normPc = "twice"
    /\ HexCount(macIn) = MacDigits
    /\ \E i \in 1..Len(macIn) : macIn[i] \in HexLower
    /\ \E i \in 1..Len(macIn) : macIn[i] = "-"
    /\ Len(macIn) > 17
    /\ IsCanonicalMac(macOut)
    /\ macOut2 = macOut

\* C11: for an input whose hex digits number other than 12 (the empty text
\* and None included), _normalize_mac returns None, and so does
\* normalizing that result again.
C11_WrongLengthIsNone ==
    (normPc \in {"once", "twice"} /\ (macIn = None \/ HexCount(macIn) # MacDigits)) =>
        /\ macOut = None
        /\ normPc = "twice" => macOut2 = None

C11_Witness ==
    /\ normPc = "twice"
    /\ macIn # None
    /\ HexCount(macIn) = MacDigits + 1
    /\ \E i \in 1..Len(macIn) : macIn[i] = ":"
    /\ macOut = None

\* C12: when get_all_devices returns the empty list, detect_presence returns
\* no name as present and every name of the roster, in roster order, as
\* absent, without an exception.
C12_NoDevicesAllAbsent ==
    (call.op = "detect_presence" /\ ret = <<>>) =>
        /\ ~escaped
        /\ present = <<>>
        /\ absent = DictKeys(colleagues)

C12_Witness ==
    /\ call.op = "detect_presence"
    /\ ret = <<>>
    /\ Len(invoked) = 3
    /\ present = <<>>
    /\ Len(absent) = 2

\* C13: with an empty roster detect_presence returns ([], []) whatever
\* devices were found.
C13_EmptyRosterEmptyResult ==
    (call.op = "detect_presence" /\ colleagues = <<>>) =>
        (present = <<>> /\ absent = <<>>)

C13_Witness ==
    /\ call.op = "detect_presence"
    /\ rosterFile.kind = "ok"
    /\ Len(rosterFile.pairs) = 2
    /\ colleagues = <<>>
    /\ Len(ret) = 2
    /\ present = <<>>
    /\ absent = <<>>

\* the hex digits of a text in upper case: what two MACs written in
\* different formats have in common
SpecDigits(s) == [i \in 1..HexCount(s) |-> UpperChar(HexAt(s, i))]

\* a text that is six pairs of hex digits with separators between them
IsMacText(m) == Len(m) = 17 /\ HexCount(m) = MacDigits

LastInvoked == invoked[Len(invoked)]

\* C14: a roster name is in present exactly when the hex digits of its MAC
\* in the roster file are, case aside, those of the MAC of a returned
\* device, and, after an arp-scan, those of a MAC that arp-scan printed,
\* whatever separators and case the two texts use; every other roster name
\* is in absent.
C14_PresentIffMacSeen ==
    (call.op = "detect_presence" /\ ~escaped) =>
        \A n \in RosterNames :
            /\ n \in Range(present) <=>
                 \E i \in 1..Len(ret) :
                    /\ ret[i].mac # None
                    /\ SpecDigits(ret[i].mac) = SpecDigits(FinalRaw(n))
            /\ (~call.hit /\ LastInvoked.s = "arp" /\ LastInvoked.kind = "ok") =>
                 (n \in Range(present) <=>
                    \E j \in 1..Len(LastInvoked.stdout) :
                       /\ LastInvoked.stdout[j].k = "fields"
                       /\ IsMacText(LastInvoked.stdout[j].mac)
                       /\ SpecDigits(LastInvoked.stdout[j].mac) = SpecDigits(FinalRaw(n)))
            /\ n \in Range(absent) <=> n \notin Range(present)

C14_Witness ==
    /\ call.op = "detect_presence"
    /\ rosterFile.pairs = << <<"Alice", MacUpperColon>>, <<"Bob", MacDigitsOnly>> >>
    /\ ~call.hit
    /\ Len(invoked) = 1
    /\ invoked[1].stdout = << Line("fields", "10.0.0.1", MacLowerDash) >>
    /\ present = <<"Alice">>
    /\ absent = <<"Bob">>

\* position of the first entry of the roster file that names n
FirstPos(n) ==
    CHOOSE i \in 1..Len(rosterFile.pairs) :
        /\ rosterFile.pairs[i][1] = n
        /\ \A j \in 1..(i - 1) : rosterFile.pairs[j][1] # n

InRosterOrder(list) ==
    \A i \in 1..Len(list) : \A j \in (i + 1)..Len(list) :
        /\ FirstPos(list[i]) < FirstPos(list[j])
        /\ \E a \in 1..Len(colleagues) : \E b \in (a + 1)..Len(colleagues) :
              colleagues[a][1] = list[i] /\ colleagues[b][1] = list[j]

\* C15: the names of present and the names of absent each stand in the
\* order of the roster mapping, which is the order in which the names first
\* appear in the roster file; also when no device was found.
C15_RosterOrder ==
    (call.op = "detect_presence" /\ ~escaped) =>
        (InRosterOrder(present) /\ InRosterOrder(absent))

C15_Witness ==
    /\ call.op = "detect_presence"
    /\ Len(rosterFile.pairs) = 2
    /\ rosterFile.pairs[1][1] = "Bob"
    /\ Len(ret) = 2
    /\ present = <<"Bob", "Alice">>

C15_WitnessNoDevices ==
    /\ call.op = "detect_presence"
    /\ ret = <<>>
    /\ absent = <<"Bob", "Alice">>

\* the invocations whose tool output was parsed: arp-scan after exit status
\* 0, nmap and arp -a after any exit status
Parsed(v) == ~v.raised /\ (v.kind = "ok" \/ (v.s # "arp" /\ v.kind = "nonzero"))

\* the line matches the pattern of its strategy
Recognized(v, j) ==
    LET line == v.stdout[j]
    IN  CASE v.s = "arp" -> line.k = "fields" /\ IsMacText(line.mac)
          [] v.s = "nmap" ->
                /\ line.k = "mac"
                /\ line.mac # <<>>
                /\ line.mac[1] \in WordChars \cup {":"}
                /\ \E r \in 1..(j - 1) : v.stdout[r].k = "report"
          [] OTHER ->
                /\ line.k = "entry"
                /\ line.mac # <<>>
                /\ line.mac[1] \in HexChars \cup {":"}

\* the address the device of line j carries
LineIp(v, j) ==
    IF v.s = "nmap"
    THEN LET r == CHOOSE r \in 1..(j - 1) :
                     /\ v.stdout[r].k = "report"
                     /\ \A q \in (r + 1)..(j - 1) : v.stdout[q].k # "report"
         IN  v.stdout[r].ip
    ELSE v.stdout[j].ip

\* C16: a strategy that parses tool output does not raise; the lines that do
\* not match its pattern give no device, and every line that matches and
\* carries a full MAC gives a device with the line's address and that MAC,
\* whatever lines stand before or after it.
C16_BadLinesSkipped ==
    IsCall =>
        \A i \in 1..Len(invoked) :
            LET v == invoked[i]
            IN  (v.kind \in {"ok", "nonzero"}) =>
                   /\ ~v.raised
                   /\ Parsed(v) =>
                        /\ Len(v.ret) = Cardinality({ j \in 1..Len(v.stdout) : Recognized(v, j) })
                        /\ \A j \in 1..Len(v.stdout) :
                              (Recognized(v, j) /\ IsMacText(v.stdout[j].mac)) =>
                                 \E d \in 1..Len(v.ret) :
                                    /\ v.ret[d].ip = LineIp(v, j)
                                    /\ IsCanonicalMac(v.ret[d].mac)
                                    /\ SpecDigits(v.ret[d].mac) = SpecDigits(v.stdout[j].mac)

C16_Witness ==
    /\ IsCall
    /\ Len(invoked) = 1
    /\ invoked[1].kind = "ok"
    /\ invoked[1].stdout = ArpOutGood
    /\ invoked[1].stdout[3].k = "notab"
    /\ Len(ret) = 2
    /\ ret[1].ip = "10.0.0.1"
    /\ ret[2].ip = "10.0.0.2"

\* C18: in one get_all_devices call no strategy is invoked twice, failed or
\* not; a cache hit invokes none.
C18_EachStrategyOnce ==
    IsCall =>
        /\ \A s \in Range(StrategyOrder) :
              Cardinality({ i \in 1..Len(invoked) : invoked[i].s = s }) <= 1
        /\ \A i \in 1..Len(invoked) : invoked[i].s \in Range(StrategyOrder)
        /\ call.hit => invoked = <<>>

C18_Witness ==
    /\ IsCall
    /\ Len(invoked) = 3
    /\ invoked[1].kind = "timeout"
    /\ invoked[2].kind = "timeout"
    /\ invoked[3].kind = "oserror"
    /\ ret = <<>>

\* C17: a caller that finds the cache missing or stale can always enter the
\* strategy chain, whatever the other caller is doing: nothing serializes
\* the scans, and both callers can be inside the chain at once.
C17_NoMutualExclusion ==
    \A t \in Callers :
        (pc[t] = "idle" /\ ~CacheHit(TRUE)) =>
            ENABLED (ConcBegin(t) /\ pc'[t] = "arp")

C17_Witness ==
    /\ Scanning(1)
    /\ Scanning(2)
    /\ devices_cache = <<>>

\* C19: the roster is immutable after load: no step of get_all_devices,
\* detect_presence, get_detailed_presence, of the tracker's start,
\* force_scan and stop, or of its scan loop changes colleagues.
C19_RosterImmutable == [][colleagues' = colleagues]_vars

C19_Witness ==
    /\ colleagues # <<>>
    /\ absent # <<>>
    /\ call.op = "stop"
    /\ \E i \in 1..Len(loops) : loops[i].pc = "done"
    /\ current_presence[2] # <<>>

\* C20: an answer of /api/presence with status 200 carries the two lists
\* that get_present_absent_colleagues returned, in their order, and their
\* combined length as total; when computing them raised, the answer has
\* status 500 and both lists empty.
C20_ApiPresence ==
    response # NoResponse =>
        IF got.raised
        THEN /\ response.status = 500
             /\ response.present = <<>>
             /\ response.absent = <<>>
        ELSE /\ response.status = 200
             /\ response.present = got.value[1]
             /\ response.absent = got.value[2]
             /\ response.total = Len(got.value[1]) + Len(got.value[2])

C20_Witness ==
    /\ response.status = 200
    /\ response.present = <<"Alice">>
    /\ response.absent = <<"Bob">>
    /\ response.total = 2

C20_WitnessFault ==
    /\ response.status = 500
    /\ got.raised
    /\ devices_cache # <<>>

Stale == last_scan_time = NoTime \/ now - last_scan_time >= cache_duration

\* C21: a get_all_devices(use_cache=True) made when no scan has happened
\* yet, or cache_duration or more after the last one, runs the strategy
\* chain, stores its result in devices_cache and sets last_scan_time to
\* the time of this scan.
C21_StaleCacheRescans ==
    [][ (CallStep /\ call'.use_cache /\ Stale)
            => /\ invoked' # <<>>
               /\ ret' = LastInvoked'.ret
               /\ devices_cache' = ret'
               /\ last_scan_time' = now' ]_vars

C21_Witness ==
    /\ call.op = "get_all_devices"
    /\ call.use_cache
    /\ invoked # <<>>
    /\ now >= cache_duration
    /\ last_scan_time = now
    /\ devices_cache = ret
    /\ ret # <<>>

\* C22: get_all_devices(use_cache=False) runs the strategy chain whatever
\* the age of the cache; afterwards devices_cache is the returned list and
\* last_scan_time is the time of this scan.
C22_NoCacheAlwaysScans ==
    [][ (call'.op = "get_all_devices" /\ ~call'.use_cache)
            => /\ invoked' # <<>>
               /\ ret' = LastInvoked'.ret
               /\ devices_cache' = ret'
               /\ last_scan_time' = now' ]_vars

C22_Witness ==
    /\ call.op = "get_all_devices"
    /\ ~call.use_cache
    /\ invoked # <<>>
    /\ now = TickStep
    /\ last_scan_time = now
    /\ devices_cache = ret
    /\ ret # <<>>

Live == { i \in 1..Len(loops) : loops[i].pc # "done" }

\* C23: at most one scan-loop thread of the PresenceTracker is alive at
\* any time, whatever the sequence of start() and stop() calls.
C23_AtMostOneLoop == Cardinality(Live) <= 1

\* C24: once stop() has made running False and no start() follows, every
\* loop thread ends; a thread that finds running False at the loop test
\* exits without another scan, and a thread that has exited takes no
\* further step, so it writes current_presence no more.
C24_StoppedLoopEnds ==
    /\ (~running) ~> (running \/ Live = {})
    /\ [][ \A i \in 1..Len(loops) :
              /\ loops[i].pc = "done" => loops'[i].pc = "done"
              /\ (loops[i].pc = "top" /\ ~running /\ loops'[i] # loops[i])
                     => loops'[i].pc = "done" ]_vars

C24_Witness ==
    /\ ~running
    /\ call.op = "stop"
    /\ Len(loops) = 1
    /\ Live = {}
    /\ current_presence[1] # <<>>

\* the device lists a scan can return when the tools behave as in env
DeviceLists(env) ==
    { v.ret : v \in env.tools.arp \cup env.tools.nmap \cup env.tools.table }

\* C25: current_presence is the initial ([], []) or the pair that one
\* detect_presence call returned for one device list, hence a partition of
\* the roster; it is never the present list of one scan with the absent
\* list of another.
C25_PresenceIsOneScan ==
    \/ current_presence = << <<>>, <<>> >>
    \/ /\ \E d \in DeviceLists(TrackerEnv) : current_presence = MatchPresence(colleagues, d)
       /\ \A n \in RosterNames :
             Count(current_presence[1], n) + Count(current_presence[2], n) = 1
       /\ Range(current_presence[1]) \cup Range(current_presence[2]) \subseteq RosterNames

\* force_scan has written while the only loop thread, which has not yet
\* completed a scan, is inside its first one
C25_Witness ==
    /\ Len(loops) = 1
    /\ loops[1].pc = "scan"
    /\ now = 0
    /\ current_presence[1] # <<>>

\* C26: when detect_presence raises in an iteration of the scan loop, the
\* iteration leaves current_presence as it was and the thread goes on to
\* its sleep, from which it comes back to scan again; it does not end.
C26_LoopSurvivesFailure ==
    [][ \A i \in 1..Len(loops) :
           (loops[i].pc = "scan" /\ loops'[i] # loops[i] /\ escaped')
               => /\ current_presence' = current_presence
                  /\ loops'[i] = LoopThread("sleep", now' + scan_interval) ]_vars

\* the thread whose scan raised has slept its interval and scans again
C26_Witness ==
    /\ escaped
    /\ running
    /\ call.op = "tick"
    /\ now >= scan_interval
    /\ loops = << LoopThread("scan", 0) >>

\* what get_detailed_presence reports for a present name: the ip of the
\* first device of its list with the name's MAC, "Unknown" if there is none
DetailIp(name, devices) ==
    LET mac == colleagues[CHOOSE j \in 1..Len(colleagues) : colleagues[j][1] = name][2]
        at == { i \in 1..Len(devices) : devices[i].mac = mac }
    IN  IF at = {} THEN "Unknown"
        ELSE devices[CHOOSE i \in at : \A k \in at : i <= k].ip

\* C27: get_detailed_presence reports one snapshot: every name it reports
\* present has its MAC in the device list that total_devices counts, so
\* no present name has ip "Unknown" and total_devices is not 0 when a name
\* is present.
C27_DetailedIsOneSnapshot ==
    (call.op = "get_detailed_presence" /\ ~escaped) =>
        /\ \A i \in 1..Len(present) : DetailIp(present[i], ret) # "Unknown"
        /\ present # <<>> => Len(ret) > 0

\* a caller has stored its device list and not yet the time of its scan
Stamping == \E t \in Callers : pc[t] = "stamp"

\* C28 as stated: in every reachable state a non-empty devices_cache comes
\* with a last_scan_time that is set.
C28_CacheImpliesTime == devices_cache # <<>> => last_scan_time # NoTime

\* C28 amended: a non-empty devices_cache comes with a set last_scan_time
\* in every state in which no caller stands between the two assignments of
\* lines 295-296; every completed scan leaves last_scan_time set, and
\* last_scan_time is changed only by a completing scan, never to None and
\* never backwards.
C28_CacheImpliesTimeOutsideStamping ==
    /\ []((devices_cache # <<>> /\ ~Stamping) => last_scan_time # NoTime)
    /\ [][ \A t \in Callers :
              (pc[t] = "stamp" /\ pc'[t] = "idle") => last_scan_time' = now ]_vars
    /\ [][ last_scan_time' # last_scan_time
              => /\ \E t \in Callers : pc[t] = "stamp" /\ pc'[t] = "idle"
                 /\ last_scan_time' # NoTime
                 /\ last_scan_time' >= last_scan_time ]_vars

\* a second scan has completed later than the first
C28_Witness ==
    /\ pc = [t \in Callers |-> "idle"]
    /\ devices_cache # <<>>
    /\ last_scan_time >= cache_duration

NoOne == << <<>>, <<>> >>

\* C29: get_present_absent_colleagues never raises; with the scanner
\* available and detect_presence returning, it returns that result;
\* otherwise, and only then, it returns what the fallback returns, and the
\* fallback returns ([], []) when the roster file is missing or anything in
\* it fails.
C29_PresenceNeverRaises ==
    (call.op \in {"detect_presence", "fallback"}) =>
        /\ ~got.raised
        /\ call.op = "detect_presence" =>
              /\ available /\ ~escaped
              /\ got.value = <<present, absent>>
        /\ call.op = "fallback" =>
              /\ ~available \/ escaped
              /\ \E run \in FallbackRuns :
                    got = get_present_absent_colleagues_fallback(rosterFile, run)
        /\ \A run \in FallbackRuns :
              LET body == FallbackBody(rosterFile, run)
                  res == get_present_absent_colleagues_fallback(rosterFile, run)
              IN  /\ ~res.raised
                  /\ (rosterFile.kind = "missing" \/ body.raised) => res.value = NoOne
                  /\ ~body.raised => res = body

\* the scanner raised and the fallback found Bob in the ARP table
C29_Witness ==
    /\ available
    /\ escaped
    /\ call.op = "fallback"
    /\ got.value[1] = <<"Bob">>

\* the scanner is unavailable and the fallback's arp call failed
C29_WitnessError ==
    /\ ~available
    /\ call.op = "fallback"
    /\ rosterFile.kind = "ok"
    /\ got.value = NoOne

\* C30: on the same roster file and the same `arp -a` output, the fallback
\* returns the present and absent lists that detect_presence returns when
\* its devices come from the ARP table, `arp -a` having run to a zero exit.
C30_FallbackAgrees ==
    (call.op = "detect_presence" /\ ~call.hit
        /\ LastInvoked.s = "table" /\ LastInvoked.kind = "ok")
        => got.value = <<present, absent>>

====
